---- MODULE Spec2Model ----
(***************************************************************************)
(* Raw system-call entry points syscall0 .. syscall6 of the mips64 backend *)
(* (src/arch/mips64/syscall.rs).                                           *)
(*                                                                         *)
(* A machine word (usize on mips64) is 64 bits wide.  It is kept at its    *)
(* full width as NLimbs limbs of 16 bits, least significant limb first, so *)
(* that wrapping arithmetic is computed modulo 2^64.                       *)
(***************************************************************************)
EXTENDS Integers, Sequences, FiniteSets, TLC

\* ------------------------------------------------------------------ words

WordBits == 64

LimbBase == 2 ^ 16

NLimbs == WordBits \div 16

Limbs == 1..NLimbs

\* The word whose value is the small number x (x < LimbBase).
Word(x) == [i \in Limbs |-> IF i = 1 THEN x ELSE 0]

Zero == Word(0)

One == Word(1)

\* 2^63 - 1, 2^63 and 2^64 - 1.
MaxPos == [i \in Limbs |-> IF i = NLimbs THEN (LimbBase \div 2) - 1 ELSE LimbBase - 1]

MinNeg == [i \in Limbs |-> IF i = NLimbs THEN LimbBase \div 2 ELSE 0]

AllOnes == [i \in Limbs |-> LimbBase - 1]

\* A local that has been declared and not yet assigned.
Uninit == << >>

\* What a call leaves behind when the encoding aborts instead of returning.
Aborted == << -1 >>

IsWord(w) == DOMAIN w = Limbs /\ \A i \in Limbs : w[i] \in 0..(LimbBase - 1)

\* Borrow out of limb i of a - b.
RECURSIVE Borrow(_, _, _)
Borrow(a, b, i) ==
    IF i = 0 THEN 0
    ELSE IF a[i] - b[i] - Borrow(a, b, i - 1) < 0 THEN 1 ELSE 0

\* usize::wrapping_sub: a - b modulo 2^64.
WrappingSub(a, b) ==
    [i \in Limbs |-> (LimbBase + a[i] - b[i] - Borrow(a, b, i - 1)) % LimbBase]

\* usize::wrapping_neg: 0.wrapping_sub(w).
WrappingNeg(w) == WrappingSub(Zero, w)

\* Carry out of limb i of a + b.
RECURSIVE Carry(_, _, _)
Carry(a, b, i) ==
    IF i = 0 THEN 0 ELSE (a[i] + b[i] + Carry(a, b, i - 1)) \div LimbBase

\* a + b modulo 2^64 (used to state what a negation is, not to compute one).
WrappingAdd(a, b) ==
    [i \in Limbs |-> (a[i] + b[i] + Carry(a, b, i - 1)) % LimbBase]

\* The word read as a signed 64-bit integer is below zero.
IsNegative(w) == w[NLimbs] >= LimbBase \div 2

\* -------------------------------------------------------------- registers

Regs == 0..31

zero == 0

v0 == 2

a3 == 7

\* t0 - t9.
Temporaries == (8..15) \cup {24, 25}

\* The register the convention gives argument i (arg1 .. arg6).
ArgRegister(i) == << 4, 5, 6, 7, 8, 9 >>[i]

\* What the kernel may overwrite in a trap: the result, the error flag and
\* every temporary register.
KernelMayAlter == {v0, a3} \cup Temporaries

\* ---------------------------------------------------------- asm operands

In(r, e) == [dir |-> "in", reg |-> r, in |-> e, out |-> ""]

Lateout(r, v) == [dir |-> "lateout", reg |-> r, in |-> "", out |-> v]

Inlateout(r, e, v) == [dir |-> "inlateout", reg |-> r, in |-> e, out |-> v]

\* syscall0_asm without the last two temporaries.
syscall0_asm_short ==
    { Inlateout(2, "n", "ret"), Lateout(7, "err"),
      Lateout(8, "_"), Lateout(9, "_"), Lateout(10, "_"), Lateout(11, "_"),
      Lateout(12, "_"), Lateout(13, "_"), Lateout(14, "_"), Lateout(15, "_") }

syscall0_asm ==
    { Inlateout(2, "n", "ret"), Lateout(7, "err"),
      Lateout(8, "_"), Lateout(9, "_"), Lateout(10, "_"), Lateout(11, "_"),
      Lateout(12, "_"), Lateout(13, "_"), Lateout(14, "_"), Lateout(15, "_"),
      Lateout(24, "_"), Lateout(25, "_") }

syscall1_asm ==
    { Inlateout(2, "n", "ret"), Lateout(7, "err"), In(4, "arg1"),
      Lateout(8, "_"), Lateout(9, "_"), Lateout(10, "_"), Lateout(11, "_"),
      Lateout(12, "_"), Lateout(13, "_"), Lateout(14, "_"), Lateout(15, "_"),
      Lateout(24, "_"), Lateout(25, "_") }

\* syscall2_asm reading err from $6.
syscall2_asm_err6 ==
    { Inlateout(2, "n", "ret"), Lateout(6, "err"), In(4, "arg1"), In(5, "arg2"),
      Lateout(8, "_"), Lateout(9, "_"), Lateout(10, "_"), Lateout(11, "_"),
      Lateout(12, "_"), Lateout(13, "_"), Lateout(14, "_"), Lateout(15, "_"),
      Lateout(24, "_"), Lateout(25, "_") }

syscall2_asm ==
    { Inlateout(2, "n", "ret"), Lateout(7, "err"), In(4, "arg1"), In(5, "arg2"),
      Lateout(8, "_"), Lateout(9, "_"), Lateout(10, "_"), Lateout(11, "_"),
      Lateout(12, "_"), Lateout(13, "_"), Lateout(14, "_"), Lateout(15, "_"),
      Lateout(24, "_"), Lateout(25, "_") }

syscall3_asm ==
    { Inlateout(2, "n", "ret"), Lateout(7, "err"),
      In(4, "arg1"), In(5, "arg2"), In(6, "arg3"),
      Lateout(8, "_"), Lateout(9, "_"), Lateout(10, "_"), Lateout(11, "_"),
      Lateout(12, "_"), Lateout(13, "_"), Lateout(14, "_"), Lateout(15, "_"),
      Lateout(24, "_"), Lateout(25, "_") }

\* syscall4_asm without $8 and $9, which carry no argument of this arity.
syscall4_asm_no_t0_t1 ==
    { Inlateout(2, "n", "ret"),
      In(4, "arg1"), In(5, "arg2"), In(6, "arg3"),
      Inlateout(7, "arg4", "err"),
      Lateout(10, "_"), Lateout(11, "_"),
      Lateout(12, "_"), Lateout(13, "_"), Lateout(14, "_"), Lateout(15, "_"),
      Lateout(24, "_"), Lateout(25, "_") }

\* syscall4_asm with $7 as in syscall3: an output only, arg4 never loaded.
syscall4_asm_no_arg4 ==
    { Inlateout(2, "n", "ret"), Lateout(7, "err"),
      In(4, "arg1"), In(5, "arg2"), In(6, "arg3"),
      Lateout(8, "_"), Lateout(9, "_"), Lateout(10, "_"), Lateout(11, "_"),
      Lateout(12, "_"), Lateout(13, "_"), Lateout(14, "_"), Lateout(15, "_"),
      Lateout(24, "_"), Lateout(25, "_") }

syscall4_asm ==
    { Inlateout(2, "n", "ret"),
      In(4, "arg1"), In(5, "arg2"), In(6, "arg3"),
      Inlateout(7, "arg4", "err"),
      Lateout(8, "_"), Lateout(9, "_"), Lateout(10, "_"), Lateout(11, "_"),
      Lateout(12, "_"), Lateout(13, "_"), Lateout(14, "_"), Lateout(15, "_"),
      Lateout(24, "_"), Lateout(25, "_") }

syscall5_asm ==
    { Inlateout(2, "n", "ret"),
      In(4, "arg1"), In(5, "arg2"), In(6, "arg3"),
      Inlateout(7, "arg4", "err"), Inlateout(8, "arg5", "_"),
      Lateout(9, "_"), Lateout(10, "_"), Lateout(11, "_"),
      Lateout(12, "_"), Lateout(13, "_"), Lateout(14, "_"), Lateout(15, "_"),
      Lateout(24, "_"), Lateout(25, "_") }

\* syscall6_asm with the registers of arg5 and arg6 exchanged.
syscall6_asm_swapped ==
    { Inlateout(2, "n", "ret"),
      In(4, "arg1"), In(5, "arg2"), In(6, "arg3"),
      Inlateout(7, "arg4", "err"), Inlateout(9, "arg5", "_"),
      Inlateout(8, "arg6", "_"),
      Lateout(10, "_"), Lateout(11, "_"),
      Lateout(12, "_"), Lateout(13, "_"), Lateout(14, "_"), Lateout(15, "_"),
      Lateout(24, "_"), Lateout(25, "_") }

syscall6_asm ==
    { Inlateout(2, "n", "ret"),
      In(4, "arg1"), In(5, "arg2"), In(6, "arg3"),
      Inlateout(7, "arg4", "err"), Inlateout(8, "arg5", "_"),
      Inlateout(9, "arg6", "_"),
      Lateout(10, "_"), Lateout(11, "_"),
      Lateout(12, "_"), Lateout(13, "_"), Lateout(14, "_"), Lateout(15, "_"),
      Lateout(24, "_"), Lateout(25, "_") }

\* The operands of the asm block of the entry point of arity k.
Asm(k) ==
    CASE k = 0 -> syscall0_asm
      [] k = 1 -> syscall1_asm
      [] k = 2 -> syscall2_asm
      [] k = 3 -> syscall3_asm
      [] k = 4 -> syscall4_asm
      [] k = 5 -> syscall5_asm
      [] k = 6 -> syscall6_asm

\* Registers loaded before the instruction.
InRegs(k) == { o.reg : o \in { p \in Asm(k) : p.dir \in {"in", "inlateout"} } }

\* Registers the block declares as written: captured or discarded ("_").
OutRegs(k) == { o.reg : o \in { p \in Asm(k) : p.dir \in {"lateout", "inlateout"} } }

\* The expression loaded into register r.
InExpr(k, r) ==
    (CHOOSE o \in Asm(k) : o.reg = r /\ o.dir \in {"in", "inlateout"}).in

\* The register whose value after the instruction is assigned to variable v.
OutRegOf(k, v) ==
    (CHOOSE o \in Asm(k) : o.out = v /\ o.dir \in {"lateout", "inlateout"}).reg

\* A call: the entry point's arity, the identifier (n as usize) and the k
\* argument words.
Eval(c, e) ==
    CASE e = "n" -> c.n
      [] e = "arg1" -> c.args[1]
      [] e = "arg2" -> c.args[2]
      [] e = "arg3" -> c.args[3]
      [] e = "arg4" -> c.args[4]
      [] e = "arg5" -> c.args[5]
      [] e = "arg6" -> c.args[6]

\* The register file as the trap instruction finds it: the inputs loaded,
\* every other register still holding what it held before the call (s).
LoadedFile(c, s) ==
    [r \in Regs |->
        IF r = zero THEN Zero
        ELSE IF r \in InRegs(c.k) THEN Eval(c, InExpr(c.k, r))
        ELSE s]

\* ------------------------------------------------------------------ bounds

\* Calls one thread of execution makes one after the other.
MaxCalls == 3

\* Threads of execution that call concurrently.
NThreads == 2

Threads == 1..NThreads

\* The thread of the sequential specification.
Main == CHOOSE t \in Threads : \A u \in Threads : t <= u

\* The two side-by-side runs of the pairwise specification.
Pair == {1, 2}

\* ------------------------------------------------------------------ inputs

Sentinel == Word(48879)

Junk == Word(57005)

\* Contents a register may hold before the call.
StaleWords == {Zero, Sentinel}

ArgVectors ==
    { << Word(11), Word(12), Word(13), Word(14), Word(15), Word(16) >>,
      << MaxPos, MinNeg, AllOnes, Zero, Word(15), One >> }

CallsOf(ks, ns, vs) ==
    { [k |-> k, n |-> n, args |-> SubSeq(v, 1, k)] : k \in ks, n \in ns, v \in vs }

SeqCalls == CallsOf(0..6, {Word(5038)}, ArgVectors)

\* Raw words and flag words the kernel may leave in v0 and a3.
KernelVals == {Zero, Word(9), MaxPos, MinNeg, AllOnes}

KernelErrs == {Zero, One, MinNeg}

PairCalls == CallsOf(0..6, {Word(5038)}, {<< Word(11), Word(12), Word(13), Word(14), Word(15), Word(16) >>})

PairVals == {Word(9)}

PairErrs == {Zero, One}

\* Thread t's call carries words no other thread's call carries.
ThreadCalls(t) ==
    CallsOf({0, 4, 6}, {Word(5000 + t)},
            { [i \in 1..6 |-> Word(16 * t + i)] })

ThreadVals(t) == {Word(9), Word(100 + t)}

\* What the kernel does in one trap: kind 0 leaves the word val in v0 and
\* the flag err in a3; kind i (1..6) echoes the register of argument i back
\* in v0 with the flag clear.
Responses(vals, errs, echoes) ==
    { [kind |-> 0, val |-> v, err |-> e] : v \in vals, e \in errs }
    \cup { [kind |-> i, val |-> Zero, err |-> Zero] : i \in echoes }

\* ------------------------------------------------------------------- state

VARIABLES
    pc,      \* per thread: idle, loaded, trapped, read, done
    call,    \* per thread: the call being made
    stale,   \* per thread: what the registers held before the call
    regs,    \* per thread: the register file
    kresp,   \* per thread: what the kernel did in the trap (history)
    ret,     \* per frame: the local ret
    err,     \* per frame: the local err
    result,  \* per thread: the word returned
    last,    \* per thread: the response and the result of the call before
    ncalls   \* per thread: calls completed

vars == << pc, call, stale, regs, kresp, ret, err, result, last, ncalls >>

NoCall == [k |-> 0, n |-> Zero, args |-> << >>]

NoResp == [kind |-> 0, val |-> Zero, err |-> Zero, ret |-> Zero, clob |-> FALSE]

NoLast == [ret |-> Uninit, err |-> Uninit, result |-> Uninit]

IdleFile == [r \in Regs |-> Zero]

\* Frame with ret and err kept in one place for every thread.
SharedFrame(t) == Main

\* The frame holding the locals ret and err of thread t's invocation: its own.
Frame(t) == t

Init ==
    /\ pc = [t \in Threads |-> "idle"]
    /\ call = [t \in Threads |-> NoCall]
    /\ stale = [t \in Threads |-> Zero]
    /\ regs = [t \in Threads |-> IdleFile]
    /\ kresp = [t \in Threads |-> NoResp]
    /\ ret = [t \in Threads |-> Uninit]
    /\ err = [t \in Threads |-> Uninit]
    /\ result = [t \in Threads |-> Uninit]
    /\ last = [t \in Threads |-> NoLast]
    /\ ncalls = [t \in Threads |-> 0]

\* ----------------------------------------------------------------- actions

\* The entry point is entered and the asm block's inputs are loaded.
Load(t, calls, stales, limit) ==
    /\ pc[t] = "idle"
    /\ ncalls[t] < limit
    /\ \E c \in calls, s \in stales :
          /\ call' = [call EXCEPT ![t] = c]
          /\ stale' = [stale EXCEPT ![t] = s]
          /\ regs' = [regs EXCEPT ![t] = LoadedFile(c, s)]
    /\ ret' = [ret EXCEPT ![Frame(t)] = Uninit]
    /\ err' = [err EXCEPT ![Frame(t)] = Uninit]
    /\ pc' = [pc EXCEPT ![t] = "loaded"]
    /\ UNCHANGED << kresp, result, last, ncalls >>

\* The register file after the kernel served response r on file f.
AfterTrap(f, r, cl) ==
    [x \in Regs |->
        IF x = v0 THEN (IF r.kind = 0 THEN r.val ELSE f[ArgRegister(r.kind)])
        ELSE IF x = a3 THEN r.err
        ELSE IF x \in Temporaries /\ cl THEN Junk
        ELSE f[x]]

\* "syscall": the kernel serves the request and returns to the thread.
Trap(t, vals, errs, echoes, clobs) ==
    /\ pc[t] = "loaded"
    /\ \E r \in Responses(vals, errs, echoes), cl \in clobs :
          /\ regs' = [regs EXCEPT ![t] = AfterTrap(regs[t], r, cl)]
          /\ kresp' = [kresp EXCEPT ![t] =
                          [kind |-> r.kind, val |-> r.val, err |-> r.err,
                           ret |-> AfterTrap(regs[t], r, cl)[v0], clob |-> cl]]
    /\ pc' = [pc EXCEPT ![t] = "trapped"]
    /\ UNCHANGED << call, stale, ret, err, result, last, ncalls >>

\* The value the asm block assigns to the variable v of thread t.
ReadOut(t, v) == regs[t][OutRegOf(call[t].k, v)]

\* The asm block's outputs are assigned to ret and err.
Read(t) ==
    /\ pc[t] = "trapped"
    /\ ret' = [ret EXCEPT ![Frame(t)] = ReadOut(t, "ret")]
    /\ err' = [err EXCEPT ![Frame(t)] = ReadOut(t, "err")]
    /\ pc' = [pc EXCEPT ![t] = "read"]
    /\ UNCHANGED << call, stale, regs, kresp, result, last, ncalls >>

\* Faulty variants of Encode, which the properties below must tell from it.

\* Encode with !ret in the place of ret.wrapping_neg().
EncodeOnesComplement(r, e) ==
    IF e = Zero THEN r ELSE [i \in Limbs |-> (LimbBase - 1) - r[i]]

\* Encode with the two branches exchanged.
EncodeFlipped(r, e) == IF e = Zero THEN WrappingNeg(r) ELSE r

\* Encode negating as a signed integer with the overflow check on.
EncodeCheckedNeg(r, e) ==
    IF e = Zero THEN r ELSE IF r = MinNeg THEN Aborted ELSE WrappingNeg(r)

\* Encode with an error flag that outlives the call that set it.
EncodeSticky(r, e) ==
    IF e = Zero /\ last[Main].err \in {Uninit, Zero} THEN r ELSE WrappingNeg(r)

\* if err == 0 { ret } else { ret.wrapping_neg() }
Encode(r, e) == IF e = Zero THEN r ELSE WrappingNeg(r)

\* The encoded word is computed and becomes the return value.
EncodeStep(t) ==
    /\ pc[t] = "read"
    /\ result' = [result EXCEPT ![t] = Encode(ret[Frame(t)], err[Frame(t)])]
    /\ pc' = [pc EXCEPT ![t] = "done"]
    /\ UNCHANGED << call, stale, regs, kresp, ret, err, last, ncalls >>

\* The entry point returns; nothing of the call is kept.
Return(t) ==
    /\ pc[t] = "done"
    /\ last' = [last EXCEPT ![t] =
                   [ret |-> kresp[t].ret, err |-> kresp[t].err,
                    result |-> result[t]]]
    /\ ncalls' = [ncalls EXCEPT ![t] = @ + 1]
    /\ pc' = [pc EXCEPT ![t] = "idle"]
    /\ call' = [call EXCEPT ![t] = NoCall]
    /\ stale' = [stale EXCEPT ![t] = Zero]
    /\ regs' = [regs EXCEPT ![t] = IdleFile]
    /\ kresp' = [kresp EXCEPT ![t] = NoResp]
    /\ ret' = [ret EXCEPT ![Frame(t)] = Uninit]
    /\ err' = [err EXCEPT ![Frame(t)] = Uninit]
    /\ result' = [result EXCEPT ![t] = Uninit]

\* One thread calling MaxCalls times, one call after the other.
Next ==
    \E t \in {Main} :
        \/ Load(t, SeqCalls, StaleWords, MaxCalls)
        \/ Trap(t, KernelVals, KernelErrs, 1..6, BOOLEAN)
        \/ Read(t)
        \/ EncodeStep(t)
        \/ Return(t)

Spec == Init /\ [][Next]_vars

\* Two calls side by side, one per run.
NextPair ==
    \E t \in Pair :
        \/ Load(t, PairCalls, StaleWords, 1)
        \/ Trap(t, PairVals, PairErrs, 1..6, BOOLEAN)
        \/ Read(t)
        \/ EncodeStep(t)
        \/ Return(t)

SpecPair == Init /\ [][NextPair]_vars

\* NThreads threads, one call each, their steps interleaved.
NextThreads ==
    \E t \in Threads :
        \/ Load(t, ThreadCalls(t), {Sentinel}, 1)
        \/ Trap(t, ThreadVals(t), {Zero, One}, {}, {TRUE})
        \/ Read(t)
        \/ EncodeStep(t)
        \/ Return(t)

SpecThreads == Init /\ [][NextThreads]_vars

\* ------------------------------------------------------------------ claims

PostTrap == {"trapped", "read", "done"}

\* C1: for every entry point and every kernel response (raw word left in v0,
\* flag word left in a3) the returned word is the raw word when the flag is
\* zero, and the word that added to the raw word gives 0 modulo 2^64 when
\* the flag is any nonzero value; nothing else is ever returned.
C1_EncodedResult ==
    \A t \in Threads :
        pc[t] = "done" =>
            /\ call[t].k \in 0..6
            /\ IsWord(result[t])
            /\ regs[t][a3] = Zero => result[t] = regs[t][v0]
            /\ regs[t][a3] # Zero => WrappingAdd(result[t], regs[t][v0]) = Zero

\* syscall6 returning 2^64 - 9 for the magnitude 9 with the flag set.
C1_Witness ==
    \E t \in Threads :
        /\ pc[t] = "done"
        /\ call[t].k = 6
        /\ regs[t][v0] = Word(9)
        /\ regs[t][a3] = One
        /\ result[t] = << 65527, 65535, 65535, 65535 >>

\* C2 as stated: for every kernel response, the flag was set if and only if
\* the returned word reads as a negative signed integer.
C2_UniformCheckEveryResponse ==
    \A t \in Threads :
        pc[t] = "done" => (kresp[t].err # Zero <=> IsNegative(result[t]))

\* The raw words for which the sign of the returned word tells the outcome:
\* at most 2^63 - 1 on success, from 1 to 2^63 on failure.
InSignedRange(r) ==
    IF r.err = Zero THEN ~IsNegative(r.ret)
    ELSE r.ret # Zero /\ (~IsNegative(r.ret) \/ r.ret = MinNeg)

\* C2 (amended): for every arity and every kernel response whose raw word is
\* at most 2^63 - 1 on success and between 1 and 2^63 on failure, the flag
\* was set if and only if the returned word reads as negative.
C2_UniformCheckInRange ==
    \A t \in Threads :
        pc[t] = "done" /\ InSignedRange(kresp[t]) =>
            (kresp[t].err # Zero <=> IsNegative(result[t]))

\* A failure of magnitude 9 read as negative, after a success read as not.
C2_Witness ==
    \E t \in Threads :
        /\ pc[t] = "done"
        /\ kresp[t].err # Zero
        /\ kresp[t].ret = Word(9)
        /\ IsNegative(result[t])
        /\ last[t].err = Zero
        /\ ~IsNegative(last[t].result)

\* C3: 2^63 - 1 with the flag clear is returned unchanged and reads as
\* non-negative; the magnitude 2^63 - 1 with the flag set is returned as a
\* word that reads as negative and is the negation of the magnitude; the
\* magnitude 2^63 with the flag set is negated to 2^63, a word, with no
\* abort.
C3_BoundaryValues ==
    \A t \in Threads :
        pc[t] = "done" =>
            /\ (kresp[t].err = Zero /\ kresp[t].ret = MaxPos) =>
                  (result[t] = MaxPos /\ ~IsNegative(result[t]))
            /\ (kresp[t].err # Zero /\ kresp[t].ret = MaxPos) =>
                  /\ IsWord(result[t])
                  /\ IsNegative(result[t])
                  /\ WrappingAdd(result[t], MaxPos) = Zero
            /\ (kresp[t].err # Zero /\ kresp[t].ret = MinNeg) =>
                  /\ IsWord(result[t])
                  /\ result[t] = MinNeg
                  /\ WrappingAdd(result[t], MinNeg) = Zero

\* The magnitude 2^63 encoded, right after the magnitude 2^63 - 1 was.
C3_Witness ==
    \E t \in Threads :
        /\ pc[t] = "done"
        /\ kresp[t].err # Zero
        /\ kresp[t].ret = MinNeg
        /\ result[t] = MinNeg
        /\ last[t].err # Zero
        /\ last[t].ret = MaxPos
        /\ last[t].result = << 1, 0, 0, 32768 >>

\* C4: at the trap of a call of arity k, v0 holds the identifier and the
\* i-th register of ($4, $5, $6, $7, $8, $9) holds argument i for every
\* i in 1..k; and a call of arity 6 whose kernel echoes argument i with the
\* flag clear returns argument i.
C4_ArgumentsReachKernel ==
    \A t \in Threads :
        /\ pc[t] = "loaded" =>
              /\ regs[t][v0] = call[t].n
              /\ \A i \in 1..call[t].k : regs[t][ArgRegister(i)] = call[t].args[i]
        /\ (pc[t] = "done" /\ call[t].k = 6 /\ kresp[t].kind # 0) =>
              result[t] = call[t].args[kresp[t].kind]

\* syscall6 returning its sixth argument, the word 1, echoed by the kernel.
C4_Witness ==
    \E t \in Threads :
        /\ pc[t] = "done"
        /\ call[t].k = 6
        /\ kresp[t].kind = 6
        /\ call[t].args[6] = One
        /\ call[t].args[5] = Word(15)
        /\ result[t] = One

\* C5: for every arity each of $8-$15, $24 and $25 is declared as written by
\* the asm block with its value discarded (as a plain output or as an
\* argument input whose output is discarded), $8 and $9 included below
\* arity 5; and none of them contributes to the returned word: two calls
\* that find the same v0 and a3 after the trap return the same word
\* whatever their temporaries hold.
C5_TemporariesDestroyed ==
    /\ \A t \in Pair :
          pc[t] \in PostTrap =>
              /\ Temporaries \subseteq OutRegs(call[t].k)
              /\ \A o \in Asm(call[t].k) :
                    (o.reg \in Temporaries /\ o.dir # "in") => o.out = "_"
    /\ \A a, b \in Pair :
          (/\ pc[a] = "done" /\ pc[b] = "done"
           /\ regs[a][v0] = regs[b][v0]
           /\ regs[a][a3] = regs[b][a3]) => result[a] = result[b]

\* Two calls of arity 4 with the same kernel result, the temporaries
\* destroyed in one and left alone in the other.
C5_Witness ==
    /\ pc[1] = "done" /\ pc[2] = "done"
    /\ call[1].k = 4 /\ call[2].k = 4
    /\ regs[1][v0] = regs[2][v0] /\ regs[1][a3] = regs[2][a3]
    /\ kresp[1].clob /\ ~kresp[2].clob
    /\ regs[1][8] # regs[2][8] /\ regs[1][25] # regs[2][25]
    /\ result[1] = result[2]

SameService(a, b, k) ==
    /\ kresp[a].kind = kresp[b].kind
    /\ kresp[a].val = kresp[b].val
    /\ kresp[a].err = kresp[b].err
    /\ kresp[a].kind <= k

C8_NoStateBetweenCalls ==
    \A t \in Threads :
        (/\ pc[t] = "done"
         /\ last[t] # NoLast
         /\ last[t].ret = kresp[t].ret
         /\ last[t].err = kresp[t].err) => result[t] = last[t].result

\* A third call answered as the second was, after a first that failed.
C8_Witness ==
    \E t \in Threads :
        /\ pc[t] = "done"
        /\ ncalls[t] = 2
        /\ last[t].ret = kresp[t].ret
        /\ last[t].err = kresp[t].err
        /\ kresp[t].err = Zero
        /\ kresp[t].ret = Word(9)
        /\ result[t] = Word(9)
        /\ last[t].result = Word(9)

\* C9: under every interleaving of the steps of the threads, each thread
\* traps with its own identifier and arguments in its registers, captures
\* its own kernel response, and returns the encoding of that response.
C9_ThreadsIndependent ==
    \A t \in Threads :
        /\ pc[t] = "loaded" =>
              /\ regs[t][v0] = call[t].n
              /\ \A i \in 1..call[t].k : regs[t][ArgRegister(i)] = call[t].args[i]
        /\ pc[t] = "read" =>
              (ret[t] = kresp[t].ret /\ err[t] = kresp[t].err)
        /\ pc[t] = "done" =>
              /\ kresp[t].err = Zero => result[t] = kresp[t].ret
              /\ kresp[t].err # Zero =>
                    (IsWord(result[t]) /\ WrappingAdd(result[t], kresp[t].ret) = Zero)

\* Two threads between capture and encoding at once, one answered with a
\* failure and the other with a success.
C9_Witness ==
    /\ pc[1] = "read" /\ pc[2] = "read"
    /\ err[1] = One /\ err[2] = Zero
    /\ ret[1] = Word(101) /\ ret[2] = Word(102)
    /\ call[1].n # call[2].n

\* C10: in the entry points of arity 4, 5 and 6, $7 holds argument 4 at the
\* trap and the decision uses its value after the trap: a nonzero argument 4
\* with the flag cleared returns the raw word, a zero argument 4 with the
\* flag set returns its negation; in the entry points of arity 0 to 3, $7 is
\* not an input, holds at the trap what it held before the call, and err is
\* assigned only after the trap.
C10_DualPurposeSlot ==
    \A t \in Threads :
        /\ (call[t].k >= 4 /\ pc[t] = "loaded") =>
              (a3 \in InRegs(call[t].k) /\ regs[t][a3] = call[t].args[4])
        /\ (call[t].k >= 4 /\ pc[t] = "done") =>
              /\ (call[t].args[4] # Zero /\ kresp[t].err = Zero) =>
                    result[t] = kresp[t].ret
              /\ (call[t].args[4] = Zero /\ kresp[t].err # Zero) =>
                    (IsWord(result[t]) /\ WrappingAdd(result[t], kresp[t].ret) = Zero)
        /\ (call[t].k <= 3 /\ pc[t] = "loaded") =>
              (a3 \notin InRegs(call[t].k) /\ regs[t][a3] = stale[t])
        /\ pc[t] \in {"loaded", "trapped"} => err[t] = Uninit
        /\ pc[t] \in {"read", "done"} => err[t] = kresp[t].err

\* syscall4 with argument 4 zero and the flag set by the kernel, returning
\* 2^64 - 9.
C10_Witness ==
    \E t \in Threads :
        /\ pc[t] = "done"
        /\ call[t].k = 4
        /\ call[t].args[4] = Zero
        /\ kresp[t].err = One
        /\ kresp[t].ret = Word(9)
        /\ result[t] = << 65527, 65535, 65535, 65535 >>

====
